---- MODULE Spec2Model ----
(***************************************************************************)
(* Model of the alert node of kapacitor (src/alert.go): construction       *)
(* (newAlertNode), the worker loop (runAlert) in stream and batch mode,    *)
(* level classification (determineLevel) and flap detection                *)
(* (updateFlapping).                                                       *)
(*                                                                         *)
(* Numbers.  The Go code computes the flap score in float64.  The model    *)
(* computes it in exact rational arithmetic: a rational is a pair          *)
(* <<numerator, denominator>> with a positive denominator, kept in lowest  *)
(* terms.  The two agree except within one rounding error of a threshold.  *)
(***************************************************************************)
EXTENDS Integers, Sequences, FiniteSets, TLC

(***************************************************************************)
(* Bounds of the model.                                                    *)
(***************************************************************************)
\* longest history ring explored by the flap-detection specification
MaxHistory == 4
\* longest history ring explored by the node-lifecycle specification
MaxRunHistory == 2
\* number of updateFlapping calls explored on one ring
MaxFed == 7
\* number of points (stream) or batches (batch) one worker consumes
MaxRecords == 2
\* largest number of points in one batch
MaxPoints == 2

(***************************************************************************)
(* Rational arithmetic.                                                    *)
(***************************************************************************)
Abs(x) == IF x < 0 THEN -x ELSE x

RECURSIVE GCD(_, _)
GCD(a, b) == IF b = 0 THEN a ELSE GCD(b, a % b)

Norm(r) ==
    LET g == GCD(Abs(r[1]), r[2])
    IN  <<r[1] \div g, r[2] \div g>>

RAdd(a, b) == Norm(<<a[1] * b[2] + b[1] * a[2], a[2] * b[2]>>)
RSub(a, b) == Norm(<<a[1] * b[2] - b[1] * a[2], a[2] * b[2]>>)
\* b > 0
RDiv(a, b) == Norm(<<a[1] * b[2], a[2] * b[1]>>)
RInt(i) == <<i, 1>>
RLess(a, b) == a[1] * b[2] < b[1] * a[2]
RLeq(a, b) == a[1] * b[2] <= b[1] * a[2]
Zero == RInt(0)
One == RInt(1)

(***************************************************************************)
(* Constants of src/alert.go.                                              *)
(***************************************************************************)
defaultFlapHistory == 21
\* 1.5
weightDiff == <<3, 2>>
\* 1.2
maxWeight == <<6, 5>>

NoAlert == 0
InfoAlert == 1
WarnAlert == 2
CritAlert == 3
AlertLevel == NoAlert .. CritAlert

StreamEdge == "stream"
BatchEdge == "batch"

(***************************************************************************)
(* State.                                                                  *)
(*   n         the declarative pipeline.AlertNode the node is built from   *)
(*   phase     "new" before newAlertNode, "failed" when it returned an     *)
(*             error, "running" while runAlert loops, "returned" after     *)
(*   ret       what runAlert returned: "none" (not yet) or "nil"           *)
(*   handlers, levels, history, hIdx, flapping   the AlertNode's fields    *)
(*   score     the p computed by the last updateFlapping call              *)
(*   count     records consumed so far (updateFlapping calls in SpecFlap)  *)
(*   bLen, bIdx, triggered   the batch being walked: its number of points, *)
(*             the index of the next point, and the local "triggered"      *)
(*   fields    the record determineLevel was last applied to: for each     *)
(*             level, what EvalPredicate returns on it                     *)
(*   level     what determineLevel last returned                           *)
(*   log       what happened for the current record, in order              *)
(***************************************************************************)
VARIABLES n, phase, ret, handlers, levels, history, hIdx, flapping, score,
          count, bLen, bIdx, triggered, fields, level, log

(***************************************************************************)
(* State of an executing task (src/unnamed/part_001).                      *)
(*   task      the Task: its Type, its pipeline (Parents[i] are the        *)
(*             parents of node i, nodes numbered in walk order and named   *)
(*             by their number), its DBRPs and its SnapshotInterval        *)
(*   tphase    "defined" before NewExecutingTask, then "linked",           *)
(*             "started", "stopped"; "panic" after a run-time panic        *)
(*   nodes     et.nodes, the executing nodes in walk order                 *)
(*   ins       for each executing node its input edges, each named by its  *)
(*             producer (0 for an edge given to start)                     *)
(*   started   for each executing node what its start was called with      *)
(*   snapshot  the snapshot given to start, nExt the number of edges       *)
(*   stopSnapshotter  the channel: "nil", "open" or "closed"                *)
(*   wg        the wait group's counter                                    *)
(*   spc       where the snapshotter worker is: "none" (not spawned),      *)
(*             "splay", "ticking" or "done"                                *)
(*   tret      the last call on the task that returned and its error:      *)
(*             0 for nil, i > 0 for the error of node i, negative for the  *)
(*             errors of the task itself                                   *)
(*   mpc       where the caller of stop is: "idle" (not in stop), "walk"   *)
(*             (the channel is closed) or "wait" (the nodes are stopped)   *)
(*   stopErr   the named result err of stop                                *)
(*   errs      the terminal error of each node once its worker has ended,  *)
(*             <<>> before                                                 *)
(*   consulted the nodes the last Err() asked for their error              *)
(*   tick      the last tick of the snapshotter: what each node's          *)
(*             snapshot() returned (a length, or -1 for an error) and      *)
(*             whether SaveSnapshot was called                             *)
(*   batcher   the source batch node of a batch task: what its DBRPs()     *)
(*             returns and which of its methods have been called           *)
(***************************************************************************)
VARIABLES task, tphase, nodes, ins, started, snapshot, nExt,
          stopSnapshotter, wg, spc, tret, mpc, stopErr, errs, consulted, tick,
          batcher

(***************************************************************************)
(* State of a lexer (package tick).                                        *)
(*   source    the DSL source, a sequence of characters                    *)
(*   lpos      the index of the next character to read                     *)
(*   tokens    the tokens nextToken has returned so far                    *)
(*   lstate    "lexing", "done" after EOF, "error" after an error; "none"  *)
(*             when there is no lexer                                      *)
(***************************************************************************)
VARIABLES source, lpos, tokens, lstate

lexVars == <<source, lpos, tokens, lstate>>

nodeVars == <<handlers, levels, history, hIdx, flapping, score>>
walkVars == <<bLen, bIdx, triggered>>
alertVars == <<n, phase, ret, handlers, levels, history, hIdx, flapping, score,
               count, bLen, bIdx, triggered, fields, level, log>>
linkVars == <<nodes, ins>>
startVars == <<started, snapshot, nExt>>
workerVars == <<stopSnapshotter, wg, spc>>
runVars == <<mpc, stopErr, errs, consulted, tick>>
taskVars == <<task, tphase, linkVars, startVars, workerVars, tret, runVars,
              batcher>>
\* what the steps of a task's life leave alone
otherVars == <<batcher, alertVars, lexVars>>
vars == <<alertVars, taskVars, lexVars>>

(***************************************************************************)
(* updateFlapping.  history is the ring, a function on 0 .. l-1.           *)
(***************************************************************************)
RingLen(h) == Cardinality(DOMAIN h)

\* "weight += step" at the end of each iteration of the score loop
NextWeightDown(weight, step) == RSub(weight, step)

NextWeight(weight, step) == RAdd(weight, step)

\* the index of the pair's older element: "p := c - 1", wrapped around
PrevIndex(c, l) == IF c - 1 < 0 THEN l - 1 ELSE c - 1

\* the loop "for i := 1; i < l; i++" of updateFlapping, from iteration i on
RECURSIVE ChangesLoop(_, _, _, _, _, _)
ChangesLoop(h, idx, i, weight, step, changes) ==
    LET l == RingLen(h)
        c == (i + idx) % l
        p == PrevIndex(c, l)
        ch == IF h[c] # h[p] THEN RAdd(changes, weight) ELSE changes
    IN  IF i < l
        THEN ChangesLoop(h, idx, i + 1, NextWeight(weight, step), step, ch)
        ELSE changes

\* the loop starting at the maximum weight, so that every pair weighs maxWeight
FirstWeightMax == maxWeight

\* the weight of the oldest pair and the increment from pair to pair
FirstWeight == RDiv(maxWeight, weightDiff)
Step(l) == RDiv(RSub(maxWeight, FirstWeight), RInt(l - 1))

\* p of the ring h whose oldest element is at idx
Score(h, idx) ==
    LET l == RingLen(h)
    IN  RDiv(ChangesLoop(h, idx, 1, FirstWeight, Step(l), Zero), RInt(l - 1))

\* the hysteresis with the comparison against FlapLow turned around
FlapFlagClearAbove(f, p, low, high) ==
    IF f /\ RLess(low, p) THEN FALSE
    ELSE IF ~f /\ RLess(high, p) THEN TRUE
    ELSE f

\* the hysteresis as two independent tests instead of "if ... else if"
FlapFlagBothTests(f, p, low, high) ==
    LET g == IF f /\ RLess(p, low) THEN FALSE ELSE f
    IN  IF ~g /\ RLess(high, p) THEN TRUE ELSE g

\* the hysteresis at the end of updateFlapping
FlapFlag(f, p, low, high) ==
    IF f /\ RLess(p, low) THEN FALSE
    ELSE IF ~f /\ RLess(high, p) THEN TRUE
    ELSE f

\* updateFlapping(level) on the ring h with index idx and flag f
UpdateFlapping(h, idx, f, low, high, lv) ==
    LET h2 == [h EXCEPT ![idx] = lv]
        i2 == (idx + 1) % RingLen(h)
        p == Score(h2, i2)
    IN  [history |-> h2, hIdx |-> i2, score |-> p,
         flapping |-> FlapFlag(f, p, low, high)]

\* the level most recently written into the ring
Newest(h, idx) == h[PrevIndex(idx, RingLen(h))]

(***************************************************************************)
(* determineLevel.  A record is given by what EvalPredicate returns on it  *)
(* for each level's predicate: "true" (pass, no error), "false" (no pass,  *)
(* no error) or "error" (no pass, an error).                               *)
(***************************************************************************)
Outcomes == {"true", "false", "error"}
Records == [InfoAlert .. CritAlert -> Outcomes]

\* an entry of the log: k is "eval" (EvalPredicate was called for level l
\* and returned x), "level" (determineLevel returned l), "flap"
\* (updateFlapping(l) was called and left the flag x) or "call" (handler x
\* was invoked with level l and a payload of sz points); i is the index of
\* the point in its batch (1 in stream mode, 0 after the walk of a batch)
Ev(k, i, l, x, sz) == [k |-> k, i |-> i, l |-> l, x |-> x, sz |-> sz]

\* a loop that returns only on an error
ReturnsOnErrorOnly(o) == o = "error"

\* a loop that returns only on a false predicate
ReturnsOnFalseOnly(o) == o = "false"

\* the two branches of determineLevel that return: "else if err != nil"
\* and "else"
Returns(o) == o # "true"

\* the loop "for l, se := range a.levels" from index l on
RECURSIVE LevelLoop(_, _, _, _, _, _)
LevelLoop(lvls, rec, i, l, lv, evals) ==
    IF l > CritAlert THEN [level |-> lv, evals |-> evals]
    ELSE IF ~lvls[l] THEN LevelLoop(lvls, rec, i, l + 1, lv, evals)
    ELSE LET e == evals \o <<Ev("eval", i, l, rec[l], 0)>>
         IN  IF Returns(rec[l])
             THEN [level |-> lv, evals |-> e]
             ELSE LevelLoop(lvls, rec, i, l + 1, l, e)

\* determineLevel on point i: the level, and the predicates evaluated
DetermineLevel(lvls, rec, i) ==
    LET d == LevelLoop(lvls, rec, i, NoAlert, NoAlert, <<>>)
    IN  [level |-> d.level,
         evals |-> d.evals \o <<Ev("level", i, d.level, "", 0)>>]

(***************************************************************************)
(* newAlertNode.                                                           *)
(***************************************************************************)
\* the handlers, in the order newAlertNode appends them
Handlers(cfg) ==
    (IF cfg.Post THEN <<"post">> ELSE <<>>) \o
    (IF cfg.Email THEN <<"email">> ELSE <<>>)

\* an.levels: TRUE where a predicate was compiled, FALSE where it is nil
Levels(cfg) ==
    [l \in AlertLevel |->
        \/ l = InfoAlert /\ cfg.Info
        \/ l = WarnAlert /\ cfg.Warn
        \/ l = CritAlert /\ cfg.Crit]

\* the history length newAlertNode uses
HistoryLen(cfg) == IF cfg.History = 0 THEN defaultFlapHistory ELSE cfg.History

\* the check of the flap thresholds
ThresholdsRejected(cfg) == RLess(One, cfg.FlapLow) \/ RLess(One, cfg.FlapHigh)

\* TRUE when newAlertNode returns an error (predicates are taken to parse)
NewFails(cfg) ==
    cfg.UseFlapping /\ (HistoryLen(cfg) < 2 \/ ThresholdsRejected(cfg))

\* the ring of a new node: nil without flap detection
NewHistory(cfg) ==
    IF cfg.UseFlapping
    THEN [i \in 0 .. HistoryLen(cfg) - 1 |-> NoAlert]
    ELSE <<>>

NodeBuilt(cfg) ==
    /\ handlers' = Handlers(cfg)
    /\ levels' = Levels(cfg)
    /\ history' = NewHistory(cfg)
    /\ hIdx' = 0
    /\ flapping' = FALSE
    /\ score' = Zero

newAlertNode ==
    /\ phase = "new"
    /\ IF NewFails(n)
       THEN /\ phase' = "failed"
            /\ UNCHANGED nodeVars
       ELSE /\ phase' = "running"
            /\ NodeBuilt(n)
    /\ UNCHANGED <<n, ret, count, walkVars, fields, level, log>>
    /\ UNCHANGED <<taskVars, lexVars>>

(***************************************************************************)
(* Configurations.                                                         *)
(***************************************************************************)
Quarter(k) == Norm(<<k, 4>>)

\* thresholds tried by the flap-detection specification
FlapLows == {Quarter(k) : k \in {-1, 0, 1}}
FlapHighs == {Quarter(k) : k \in {-1, 2, 4}}

\* thresholds tried by the node-lifecycle specification
RunLows == {Quarter(k) : k \in {0, 1}}
RunHighs == {Quarter(k) : k \in {2}}

NoFlapping == [UseFlapping |-> FALSE, History |-> 0,
               FlapLow |-> Zero, FlapHigh |-> Zero]

Outputs(w, post, email) == [Wants |-> w, Post |-> post, Email |-> email]
Predicates(i, w, c) == [Info |-> i, Warn |-> w, Crit |-> c]
Flapping(h, low, high) == [UseFlapping |-> TRUE, History |-> h,
                           FlapLow |-> low, FlapHigh |-> high]

Merge(a, b) == [k \in DOMAIN a \cup DOMAIN b |->
                   IF k \in DOMAIN a THEN a[k] ELSE b[k]]

\* configurations of the flap-detection specification: a stream node
\* with one predicate and no handler
FlapConfigs ==
    { Merge(Merge(Outputs(StreamEdge, FALSE, FALSE), Predicates(FALSE, FALSE, TRUE)),
            Flapping(h, low, high)) :
        h \in 2 .. MaxHistory, low \in FlapLows, high \in FlapHighs }

\* configurations of the node-lifecycle specification
RunConfigs ==
    { Merge(Merge(Outputs(w, post, email), Predicates(i, wn, c)), f) :
        w \in {StreamEdge, BatchEdge}, post \in BOOLEAN, email \in BOOLEAN,
        i \in BOOLEAN, wn \in BOOLEAN, c \in BOOLEAN,
        f \in {NoFlapping} \cup
              { Flapping(h, low, high) :
                  h \in 2 .. MaxRunHistory, low \in RunLows, high \in RunHighs } }

\* a call that returned
Returned(op, err) == [op |-> op, err |-> err]

\* the snapshotter has not ticked
NoTick == [ticked |-> FALSE, results |-> <<>>, saved |-> FALSE]

\* a task before NewExecutingTask
TaskIdle ==
    /\ tphase = "defined"
    /\ nodes = <<>>
    /\ ins = <<>>
    /\ started = <<>>
    /\ snapshot = <<>>
    /\ nExt = 0
    /\ stopSnapshotter = "nil"
    /\ wg = 0
    /\ spc = "none"
    /\ tret = Returned("none", 0)
    /\ mpc = "idle"
    /\ stopErr = 0
    /\ errs = <<>>
    /\ consulted = {}
    /\ tick = NoTick

\* a source batch node none of whose methods has been called
Batcher(failing, dbrps) ==
    [failing |-> failing, dbrps |-> dbrps, asked |-> FALSE, started |-> FALSE,
     counted |-> FALSE, queried |-> FALSE]

NoBatcher == Batcher(FALSE, <<>>)

\* no task
NoTask ==
    /\ task = <<>>
    /\ batcher = NoBatcher
    /\ TaskIdle

\* no lexer
NoLexer ==
    /\ source = <<>>
    /\ lpos = 1
    /\ tokens = <<>>
    /\ lstate = "none"

Idle ==
    /\ ret = "none"
    /\ count = 0
    /\ bLen = 0 /\ bIdx = 0 /\ triggered = FALSE
    /\ fields = <<>>
    /\ level = NoAlert
    /\ log = <<>>

\* no node yet
Unbuilt ==
    /\ handlers = <<>>
    /\ levels = [l \in AlertLevel |-> FALSE]
    /\ history = <<>>
    /\ hIdx = 0
    /\ flapping = FALSE
    /\ score = Zero

Built(cfg) ==
    /\ handlers = Handlers(cfg)
    /\ levels = Levels(cfg)
    /\ history = NewHistory(cfg)
    /\ hIdx = 0
    /\ flapping = FALSE
    /\ score = Zero

(***************************************************************************)
(* SpecFlap: updateFlapping applied to a node as newAlertNode built it,    *)
(* with every level as input.                                              *)
(***************************************************************************)
InitFlap ==
    /\ n \in FlapConfigs
    /\ phase = "running"
    /\ Built(n)
    /\ Idle
    /\ NoTask
    /\ NoLexer

updateFlapping ==
    /\ phase = "running"
    /\ count < MaxFed
    /\ \E lv \in AlertLevel :
        LET u == UpdateFlapping(history, hIdx, flapping, n.FlapLow, n.FlapHigh, lv)
        IN  /\ history' = u.history
            /\ hIdx' = u.hIdx
            /\ flapping' = u.flapping
            /\ score' = u.score
            /\ level' = lv
    /\ count' = count + 1
    /\ UNCHANGED <<n, phase, ret, handlers, levels, walkVars, fields, log>>
    /\ UNCHANGED <<taskVars, lexVars>>

NextFlap == updateFlapping

SpecFlap == InitFlap /\ [][NextFlap]_vars

(***************************************************************************)
(* runAlert.                                                               *)
(***************************************************************************)
\* a guard that lets every level through
DispatchesAnyLevel(l) == l >= NoAlert

\* "if l > NoAlert"
Dispatches(l) == l > NoAlert

\* a node that never looks at the flag
SuppressedNever(f) == FALSE

\* "if a.flapping { continue }" (stream), "if a.flapping { break }" (batch)
Suppressed(f) == f

\* a loop that invokes the last handler first
RECURSIVE InvokeReversed(_, _, _, _)
InvokeReversed(hs, i, l, sz) ==
    IF hs = <<>> THEN <<>>
    ELSE InvokeReversed(Tail(hs), i, l, sz) \o <<Ev("call", i, l, Head(hs), sz)>>

\* "for _, h := range a.handlers { h(ad) }"
Invoke(hs, i, l, sz) == [j \in 1 .. Len(hs) |-> Ev("call", i, l, hs[j], sz)]

\* the flap update of a record, when flap detection is on: the node's new
\* flap state and the log entry
FlapStep(lv, i) ==
    LET u == UpdateFlapping(history, hIdx, flapping, n.FlapLow, n.FlapHigh, lv)
    IN  u @@
        [ev |-> <<Ev("flap", i, lv, IF u.flapping THEN "flapping" ELSE "steady", 0)>>]

NoFlapStep ==
    [history |-> history, hIdx |-> hIdx, score |-> score,
     flapping |-> flapping, ev |-> <<>>]

SetFlap(u) ==
    /\ history' = u.history
    /\ hIdx' = u.hIdx
    /\ score' = u.score
    /\ flapping' = u.flapping

\* one iteration of the stream loop: a point arrives on ins[0]
StreamPoint ==
    /\ phase = "running"
    /\ n.Wants = StreamEdge
    /\ count < MaxRecords
    /\ \E rec \in Records :
        LET d == DetermineLevel(levels, rec, 1)
            u == IF n.UseFlapping THEN FlapStep(d.level, 1) ELSE NoFlapStep
            calls == IF n.UseFlapping /\ Suppressed(u.flapping) THEN <<>>
                     ELSE IF Dispatches(d.level)
                          THEN Invoke(handlers, 1, d.level, 1)
                          ELSE <<>>
        IN  /\ SetFlap(u)
            /\ level' = d.level
            /\ log' = d.evals \o u.ev \o calls
    /\ count' = count + 1
    /\ UNCHANGED <<n, phase, ret, handlers, levels, walkVars, fields>>
    /\ UNCHANGED <<taskVars, lexVars>>

\* a batch of bLen points arrives on ins[0]: "triggered := false"
BatchNext ==
    /\ phase = "running"
    /\ n.Wants = BatchEdge
    /\ bIdx = 0
    /\ count < MaxRecords
    /\ \E m \in 0 .. MaxPoints : bLen' = m
    /\ bIdx' = 1
    /\ triggered' = FALSE
    /\ log' = <<>>
    /\ level' = NoAlert
    /\ count' = count + 1
    /\ UNCHANGED <<n, phase, ret, nodeVars, fields>>
    /\ UNCHANGED <<taskVars, lexVars>>

\* a walk that goes on to the next point after a trigger
AfterTriggerNoBreak(i, len) == i + 1

\* "break": the walk of the batch is over
AfterTrigger(i, len) == len + 1

\* one iteration of "for _, p := range b.Points"
BatchPoint ==
    /\ phase = "running"
    /\ n.Wants = BatchEdge
    /\ 1 <= bIdx /\ bIdx <= bLen
    /\ \E rec \in Records :
        LET d == DetermineLevel(levels, rec, bIdx)
            trig == Dispatches(d.level)
            u == IF trig /\ n.UseFlapping THEN FlapStep(d.level, bIdx) ELSE NoFlapStep
            calls == IF ~trig \/ (n.UseFlapping /\ Suppressed(u.flapping)) THEN <<>>
                     ELSE Invoke(handlers, bIdx, d.level, bLen)
        IN  /\ SetFlap(u)
            /\ level' = d.level
            /\ log' = log \o d.evals \o u.ev \o calls
            /\ triggered' = (triggered \/ trig)
            /\ bIdx' = IF trig THEN AfterTrigger(bIdx, bLen) ELSE bIdx + 1
    /\ UNCHANGED <<n, phase, ret, handlers, levels, count, bLen, fields>>
    /\ UNCHANGED <<taskVars, lexVars>>

\* after the walk: "if !triggered && a.a.UseFlapping"
BatchEnd ==
    /\ phase = "running"
    /\ n.Wants = BatchEdge
    /\ bIdx = bLen + 1
    /\ LET u == IF ~triggered /\ n.UseFlapping THEN FlapStep(NoAlert, 0) ELSE NoFlapStep
       IN  /\ SetFlap(u)
           /\ log' = log \o u.ev
    /\ bIdx' = 0
    /\ UNCHANGED <<n, phase, ret, handlers, levels, count, bLen, triggered,
                   fields, level>>
    /\ UNCHANGED <<taskVars, lexVars>>

\* ins[0] is closed: NextPoint / NextBatch return ok = false, runAlert
\* returns nil
InputClosed ==
    /\ phase = "running"
    /\ bIdx = 0
    /\ phase' = "returned"
    /\ ret' = "nil"
    /\ UNCHANGED <<n, nodeVars, count, walkVars, fields, level, log>>
    /\ UNCHANGED <<taskVars, lexVars>>

(***************************************************************************)
(* Spec: an alert node from construction to the return of its worker.      *)
(***************************************************************************)
Init ==
    /\ n \in RunConfigs
    /\ phase = "new"
    /\ Unbuilt
    /\ Idle
    /\ NoTask
    /\ NoLexer

Next ==
    \/ newAlertNode
    \/ StreamPoint
    \/ BatchNext
    \/ BatchPoint
    \/ BatchEnd
    \/ InputClosed

Spec == Init /\ [][Next]_vars

(***************************************************************************)
(* SpecLevel: determineLevel applied to every record, on a node with every *)
(* choice of configured predicates.                                        *)
(***************************************************************************)
LevelConfigs ==
    { Merge(Merge(Outputs(StreamEdge, FALSE, FALSE), Predicates(i, wn, c)), NoFlapping) :
        i \in BOOLEAN, wn \in BOOLEAN, c \in BOOLEAN }

InitLevel ==
    /\ n \in LevelConfigs
    /\ phase = "running"
    /\ Built(n)
    /\ Idle
    /\ NoTask
    /\ NoLexer

determineLevel ==
    /\ phase = "running"
    /\ count < MaxRecords
    /\ \E rec \in Records :
        LET d == DetermineLevel(levels, rec, 1)
        IN  /\ fields' = rec
            /\ level' = d.level
            /\ log' = d.evals
    /\ count' = count + 1
    /\ UNCHANGED <<n, phase, ret, nodeVars, walkVars>>
    /\ UNCHANGED <<taskVars, lexVars>>

NextLevel == determineLevel

SpecLevel == InitLevel /\ [][NextLevel]_vars

(***************************************************************************)
(* SpecNew: newAlertNode on every flap configuration, also those it must   *)
(* reject.                                                                 *)
(***************************************************************************)
NewThresholds == {Quarter(k) : k \in {-1, 0, 2, 4, 5}}

NewConfigs ==
    { Merge(Merge(Outputs(StreamEdge, TRUE, FALSE), Predicates(FALSE, FALSE, TRUE)),
            [UseFlapping |-> u, History |-> h, FlapLow |-> low, FlapHigh |-> high]) :
        u \in BOOLEAN, h \in -1 .. MaxHistory,
        low \in NewThresholds, high \in NewThresholds }

InitNew ==
    /\ n \in NewConfigs
    /\ phase = "new"
    /\ Unbuilt
    /\ Idle
    /\ NoTask
    /\ NoLexer

NextNew == newAlertNode

SpecNew == InitNew /\ [][NextNew]_vars

(***************************************************************************)
(* Reading the log.                                                        *)
(***************************************************************************)
MaxOf(S) == CHOOSE x \in S : \A y \in S : y <= x

\* positions of the log with an entry of kind k
Pos(k) == {j \in 1 .. Len(log) : log[j].k = k}
\* positions of the log with an entry of kind k for point i
PosAt(k, i) == {j \in Pos(k) : log[j].i = i}
\* the points that were classified
Classified == {log[j].i : j \in Pos("level")}
\* the handler invocations, in order
Calls == SelectSeq(log, LAMBDA e : e.k = "call")

\* the handlers the configuration asks for, in configuration order
Configured ==
    (IF n.Post THEN <<"post">> ELSE <<>>) \o (IF n.Email THEN <<"email">> ELSE <<>>)

\* levels with a configured predicate
HasPredicate(l) ==
    \/ l = InfoAlert /\ n.Info
    \/ l = WarnAlert /\ n.Warn
    \/ l = CritAlert /\ n.Crit

(***************************************************************************)
(* Claims about level classification (SpecLevel).                          *)
(***************************************************************************)
\* C1 as stated: determineLevel returns the highest level in {Info, Warn,
\* Crit} whose predicate returns true on the record, NoAlert when none does.
C1_HighestTrue ==
    count > 0 =>
        level = MaxOf({NoAlert} \cup
                      {l \in InfoAlert .. CritAlert :
                          HasPredicate(l) /\ fields[l] = "true"})

\* C1 amended: determineLevel returns the highest level with a configured
\* predicate such that the predicates of that level and of every lower
\* configured level all return true on the record, NoAlert when there is no
\* such level.
C1_HighestUnbrokenTrue ==
    count > 0 =>
        level = MaxOf({NoAlert} \cup
                      {l \in InfoAlert .. CritAlert :
                          /\ HasPredicate(l)
                          /\ \A k \in InfoAlert .. l :
                                HasPredicate(k) => fields[k] = "true"})

\* a record on which a higher predicate passes above a failing one
C1_Witness ==
    /\ count > 0
    /\ n.Info /\ n.Crit
    /\ fields[InfoAlert] = "false"
    /\ fields[CritAlert] = "true"
    /\ level = NoAlert

\* C2: predicates are consulted in ascending severity, levels without a
\* predicate are skipped, and once a configured predicate returns false no
\* higher predicate is evaluated and the level accumulated so far is
\* returned.
C2_AscendingStopOnFalse ==
    count > 0 =>
        LET ev == Pos("eval")
            done == {log[j].l : j \in ev}
        IN  \* ascending, each level at most once, with the record's outcome
            /\ \A j, k \in ev : j < k => log[j].l < log[k].l
            /\ \A j \in ev : HasPredicate(log[j].l) /\ log[j].x = fields[log[j].l]
            \* a configured level is consulted exactly when no lower
            \* configured level returned something else than true
            /\ \A l \in InfoAlert .. CritAlert :
                  l \in done <=>
                      /\ HasPredicate(l)
                      /\ \A k \in InfoAlert .. l - 1 :
                            HasPredicate(k) => fields[k] = "true"
            \* after a false, nothing more is evaluated and the level is the
            \* highest one that passed before
            /\ \A j \in ev : log[j].x = "false" =>
                  /\ \A k \in ev : k <= j
                  /\ level = MaxOf({NoAlert} \cup {log[k].l : k \in {m \in ev : m < j}})

\* a false predicate above a passing one and below one that would pass
C2_Witness ==
    /\ count > 0
    /\ n.Info /\ n.Warn /\ n.Crit
    /\ fields[InfoAlert] = "true"
    /\ fields[WarnAlert] = "false"
    /\ fields[CritAlert] = "true"
    /\ level = InfoAlert
    /\ Cardinality(Pos("eval")) = 2

(***************************************************************************)
(* Claims about the worker (Spec).                                         *)
(***************************************************************************)
\* an evaluation error is the last evaluation of its record, and the level
\* returned for the record is the highest one that passed before it; the
\* worker has returned nothing but nil
C3_ErrorKeepsLevel ==
    /\ \A j \in Pos("eval") : log[j].x = "error" =>
          LET mine == PosAt("eval", log[j].i)
          IN  /\ \A k \in mine : k <= j
              /\ \A k \in PosAt("level", log[j].i) :
                    log[k].l = MaxOf({NoAlert} \cup
                                     {log[m].l : m \in {q \in mine : q < j}})
    /\ ret \in {"none", "nil"}
    /\ phase = "returned" <=> ret = "nil"

\* a worker that met an error stays in its loop: it takes the next point
\* of the batch or waits for the next record, and leaves the loop only
\* between two records, returning nil
C3_ErrorKeepsWorker ==
    (phase = "running" /\ \E j \in Pos("eval") : log[j].x = "error") =>
        \/ phase' = "running"
        \/ phase' = "returned" /\ ret' = "nil" /\ bIdx = 0

\* C3: when a predicate raises an evaluation error, no higher predicate is
\* evaluated for that record, the level accumulated from the lower passing
\* predicates is returned, and the worker neither terminates nor records an
\* error: it stays in its loop until the input is closed, and then returns
\* nil.
C3_ErrorKeepsLevelAndWorker ==
    []C3_ErrorKeepsLevel /\ [][C3_ErrorKeepsWorker]_vars

\* the first point of a batch raised an error, the second point raised one
\* above two passing predicates and was dispatched at the accumulated level,
\* and the worker returned nil after the input closed
C3_Witness ==
    /\ phase = "returned"
    /\ ret = "nil"
    /\ count = 2
    /\ \E j \in PosAt("eval", 1) : log[j].x = "error"
    /\ \E j \in PosAt("eval", 2) : log[j].x = "error" /\ log[j].l = CritAlert
    /\ \E j \in PosAt("level", 2) : log[j].l = WarnAlert
    /\ Calls # <<>>

\* the log of a stream point after determineLevel returned
AfterLevel == SubSeq(log, MaxOf(Pos("level")) + 1, Len(log))

\* C4: in stream mode, for every point, the flap state is first updated with
\* the point's level (when flap detection is enabled); then every configured
\* handler is invoked exactly once, in configuration order, with the point's
\* level if the level is above NoAlert and the node is not flapping after
\* the update, and no handler is invoked otherwise.
C4_StreamDispatch ==
    (n.Wants = StreamEdge /\ count > 0) =>
        /\ Cardinality(Pos("level")) = 1
        /\ log[MaxOf(Pos("level"))].l = level
        /\ AfterLevel =
              (IF n.UseFlapping
               THEN <<Ev("flap", 1, level,
                         IF flapping THEN "flapping" ELSE "steady", 0)>>
               ELSE <<>>)
              \o
              (IF level > NoAlert /\ ~flapping
               THEN [j \in 1 .. Len(Configured) |-> Ev("call", 1, level, Configured[j], 1)]
               ELSE <<>>)
        /\ ~n.UseFlapping => ~flapping

\* a point passing the crit predicate reached both handlers, in order, after
\* the flap update
C4_Witness ==
    /\ n.Wants = StreamEdge
    /\ n.UseFlapping
    /\ count = 2
    /\ level = CritAlert
    /\ Len(Calls) = 2
    /\ Calls[1].x = "post" /\ Calls[2].x = "email"
    /\ log[Len(log) - 2].k = "flap"

\* the level entries of the log above NoAlert
Triggers == {j \in Pos("level") : log[j].l > NoAlert}

\* no point after the one of entry j was classified or dispatched
WalkEndedAt(j) ==
    /\ \A k \in 1 .. Len(log) : log[k].i <= log[j].i
    /\ bIdx \in {0, bLen + 1}

\* C5 as stated: in batch mode the first point whose level is above NoAlert
\* triggers a dispatch of the entire batch to every handler, and no later
\* point of the batch is classified or dispatched.
C5_FirstTriggerDispatches ==
    (n.Wants = BatchEdge /\ count > 0) =>
        /\ Cardinality(Triggers) <= 1
        /\ \A j \in Triggers :
              /\ WalkEndedAt(j)
              /\ Calls = [c \in 1 .. Len(Configured) |->
                            Ev("call", log[j].i, log[j].l, Configured[c], bLen)]
        /\ Triggers = {} => Calls = <<>>

\* C5 amended: in batch mode the first point whose level is above NoAlert
\* ends the walk: no later point of the batch is classified or dispatched.
\* It triggers one dispatch of the entire batch to every handler, unless
\* flap detection is enabled and the node is flapping after the flap state
\* was updated with that level: then nothing is dispatched for the batch.
C5_FirstTriggerEndsWalk ==
    (n.Wants = BatchEdge /\ count > 0) =>
        /\ Cardinality(Triggers) <= 1
        /\ \A j \in Triggers :
              /\ WalkEndedAt(j)
              /\ Calls = IF n.UseFlapping /\ flapping
                         THEN <<>>
                         ELSE [c \in 1 .. Len(Configured) |->
                                 Ev("call", log[j].i, log[j].l, Configured[c], bLen)]
        /\ Triggers = {} => Calls = <<>>

\* the first point of a batch of two triggered and went to both handlers
C5_Witness ==
    /\ n.Wants = BatchEdge
    /\ bLen = 2
    /\ bIdx = 0
    /\ Classified = {1}
    /\ Len(Calls) = 2
    /\ Calls[1].sz = 2

\* C6: a handler is never invoked with level NoAlert, in either mode.
C6_NeverNoAlert ==
    \A j \in Pos("call") : log[j].l \in {InfoAlert, WarnAlert, CritAlert}

\* handlers were invoked, in a state where a NoAlert record came before
C6_Witness ==
    /\ Calls # <<>>
    /\ Cardinality(Pos("level")) = 2
    /\ \E j \in Pos("level") : log[j].l = NoAlert

\* C7: with flap detection enabled, no handler is invoked while the flapping
\* flag, as updated by the record being processed, is true.
C7_NoCallWhileFlapping ==
    (n.UseFlapping /\ Calls # <<>>) =>
        /\ ~flapping
        /\ \A j \in Pos("flap") : log[j].x = "steady"
        /\ \A j \in Pos("call") : \E k \in PosAt("flap", log[j].i) : k < j

\* a record above NoAlert arrived while flapping and reached no handler
C7_Witness ==
    /\ n.UseFlapping
    /\ phase = "running"
    /\ handlers # <<>>
    /\ flapping
    /\ bIdx = 0
    /\ Triggers # {}
    /\ Calls = <<>>

(***************************************************************************)
(* Claims about construction (SpecNew).                                    *)
(***************************************************************************)
OutOfRange(t) == RLess(t, Zero) \/ RLess(One, t)

\* C8: with flap detection enabled, newAlertNode fails whenever flap_low or
\* flap_high lies outside [0, 1] or the history length is below 2, and
\* returns no node then.
C8_RejectsBadFlapConfig ==
    (phase # "new" /\ n.UseFlapping /\
     (OutOfRange(n.FlapLow) \/ OutOfRange(n.FlapHigh) \/ HistoryLen(n) < 2))
        => phase = "failed" /\ Unbuilt

(***************************************************************************)
(* Claims about flap detection (SpecFlap).                                 *)
(***************************************************************************)
\* TRUE when one of the next k calls updateFlapping(lv) finds the flag set
\* and p < low, and so clears the flag
RECURSIVE SteadyClears(_, _, _, _, _, _, _)
SteadyClears(h, idx, f, low, high, lv, k) ==
    IF k = 0 THEN FALSE
    ELSE LET u == UpdateFlapping(h, idx, f, low, high, lv)
         IN  \/ f /\ ~u.flapping /\ RLess(u.score, low)
             \/ SteadyClears(u.history, u.hIdx, u.flapping, low, high, lv, k - 1)

\* the score after k calls updateFlapping(lv)
RECURSIVE SteadyScore(_, _, _, _)
SteadyScore(h, idx, lv, k) ==
    IF k = 0 THEN Score(h, idx)
    ELSE SteadyScore([h EXCEPT ![idx] = lv], (idx + 1) % RingLen(h), lv, k - 1)

ScenarioConfig ==
    /\ n.UseFlapping
    /\ n.History = 4
    /\ n.FlapLow = Quarter(1)
    /\ n.FlapHigh = Quarter(2)

ScenarioFed ==
    /\ ScenarioConfig
    /\ count = 4
    /\ history = [i \in 0 .. 3 |-> IF i % 2 = 0 THEN NoAlert ELSE CritAlert]

\* C9: a fresh node with H=4, flap_low=0.25, flap_high=0.5 that was fed
\* NoAlert, Crit, NoAlert, Crit is flapping; and from every flapping state
\* with flap_low > 0, feeding one level H times in a row brings p below
\* flap_low and one of these H updates clears the flapping flag.
C9_FlapScenario ==
    /\ ScenarioFed => flapping
    /\ (n.UseFlapping /\ phase = "running" /\ flapping /\ RLess(Zero, n.FlapLow)) =>
          \A lv \in AlertLevel :
              /\ SteadyClears(history, hIdx, flapping, n.FlapLow, n.FlapHigh,
                              lv, RingLen(history))
              /\ RLess(SteadyScore(history, hIdx, lv, RingLen(history)), n.FlapLow)

\* the scenario was played and left the node flapping
C9_Witness == ScenarioFed /\ flapping /\ RLess(Zero, n.FlapLow)

\* C10: when updateFlapping is called with a level that differs from the
\* most recently recorded level, the p it computes is not lower than the p
\* of the history before the call.
C10_ScoreMonotone ==
    [][(count' = count + 1 /\ level' # Newest(history, hIdx))
          => RLeq(Score(history, hIdx), score')]_vars

\* a call with a differing level on a ring that already held changes
C10_Witness ==
    /\ count >= 3
    /\ level = Newest(history, hIdx)
    /\ level # history[PrevIndex(PrevIndex(hIdx, RingLen(history)), RingLen(history))]
    /\ RLess(Zero, score)
    /\ RingLen(history) >= 3

\* C20: on each updateFlapping call the flapping flag is cleared iff it was
\* set and p < flap_low, it is set iff it was clear and p > flap_high, and
\* it is left unchanged in every other case, in particular whenever
\* flap_low <= p <= flap_high; at most one of the two transitions happens.
C20_Hysteresis ==
    [][count' = count + 1 =>
          /\ (flapping /\ ~flapping') <=> (flapping /\ RLess(score', n.FlapLow))
          /\ (~flapping /\ flapping') <=> (~flapping /\ RLess(n.FlapHigh, score'))
          /\ (RLeq(n.FlapLow, score') /\ RLeq(score', n.FlapHigh))
                => flapping' = flapping]_vars

\* a call that found the flag set and p between the thresholds, and left it
C20_Witness ==
    /\ count >= 2
    /\ flapping
    /\ RLess(n.FlapLow, score)
    /\ RLess(score, n.FlapHigh)

(***************************************************************************)
(* ExecutingTask (src/unnamed/part_001).                                   *)
(***************************************************************************)
MaxNodes == 3
MaxIns == 2

StreamTask == 0
BatchTask == 1

RECURSIVE Ascending(_)
\* the members of a set of numbers as a sequence, smallest first
Ascending(S) ==
    IF S = {} THEN <<>>
    ELSE LET m == CHOOSE x \in S : \A y \in S : x <= y
         IN  <<m>> \o Ascending(S \ {m})

\* the pipelines of c nodes in walk order: node 1 is the source and has no
\* parent, every other node has at least one parent, all earlier in the walk
Pipelines(c) ==
    { ps \in [1 .. c -> {Ascending(S) : S \in SUBSET (1 .. c)}] :
        /\ ps[1] = <<>>
        /\ \A i \in 2 .. c :
              /\ ps[i] # <<>>
              /\ \A j \in 1 .. Len(ps[i]) : ps[i][j] < i }

\* a Task; Unknown is the first node createNode has no case for, 0 if none
Task(type, ps, unknown, dbrps, interval) ==
    [Type |-> type, Parents |-> ps, Unknown |-> unknown, DBRPs |-> dbrps,
     SnapshotInterval |-> interval]

NodeCount(t) == Cardinality(DOMAIN t.Parents)

\* n.Name() of the executing node made for pipeline node i
Name(i) == i

\* what a node's start was called with
NotStarted == [called |-> FALSE, nil |-> TRUE, data |-> <<>>]
StartedNil == [called |-> TRUE, nil |-> TRUE, data |-> <<>>]
StartedWith(b) == [called |-> TRUE, nil |-> FALSE, data |-> b]

\* the parents whose edges link duplicates: only the first one
LinkedParentsFirst(t, i) ==
    IF t.Parents[i] = <<>> THEN <<>> ELSE <<t.Parents[i][1]>>

\* for _, p := range n.Parents()
LinkedParents(t, i) == t.Parents[i]

\* ep.linkChild(en): a new edge from the parent is appended to en's inputs
linkChild(e, p, c) == [e EXCEPT ![c] = Append(@, p)]

RECURSIVE LinkParents(_, _, _, _)
LinkParents(e, ps, j, c) ==
    IF j > Len(ps) THEN e
    ELSE LinkParents(linkChild(e, ps[j], c), ps, j + 1, c)

RECURSIVE LinkWalk(_, _, _)
\* Pipeline.Walk of link from node i on: e are the input edges so far
LinkWalk(t, e, i) ==
    IF i > NodeCount(t) THEN e
    ELSE LinkWalk(t, LinkParents(e @@ (i :> <<>>), LinkedParents(t, i), 1, i),
                  i + 1)

\* "unknown pipeline node type"
ErrUnknownNode == 0 - 4

\* NewExecutingTask: link creates the nodes and duplicates the edges, or
\* fails at the first node of unknown type and no task is returned
NewExecutingTask ==
    /\ tphase = "defined"
    /\ IF task.Unknown # 0
       THEN /\ tphase' = "failed"
            /\ UNCHANGED linkVars
       ELSE /\ tphase' = "linked"
            /\ nodes' = [i \in 1 .. NodeCount(task) |-> i]
            /\ ins' = LinkWalk(task, <<>>, 1)
    /\ started' = IF task.Unknown # 0 THEN started
                  ELSE [i \in 1 .. NodeCount(task) |-> NotStarted]
    /\ tret' = Returned("NewExecutingTask", IF task.Unknown # 0 THEN ErrUnknownNode ELSE 0)
    /\ UNCHANGED <<task, snapshot, nExt, workerVars, runVars, otherVars>>

\* et.source.addParentEdge(in)
addParentEdge(e, src) == [e EXCEPT ![src] = Append(@, 0)]

RECURSIVE AddIns(_, _, _)
AddIns(e, src, k) ==
    IF k = 0 THEN e ELSE AddIns(addParentEdge(e, src), src, k - 1)

\* validSnapshot accepted as soon as one node name is a key
ValidSnapshotAny(ns, sn) ==
    /\ ~sn.nil
    /\ \E i \in DOMAIN ns : Name(ns[i]) \in DOMAIN sn.NodeSnapshots

\* validSnapshot: a snapshot was given and the walk found every node's name
ValidSnapshot(ns, sn) ==
    /\ ~sn.nil
    /\ \A i \in DOMAIN ns : Name(ns[i]) \in DOMAIN sn.NodeSnapshots

\* n.start(snapshot.NodeSnapshots[n.Name()]): a key the map lacks reads as nil
StartFrom(sn, k) ==
    IF k \in DOMAIN sn.NodeSnapshots
    THEN StartedWith(sn.NodeSnapshots[k])
    ELSE StartedNil

\* the second walk of start
StartNodes(ns, sn) ==
    [i \in DOMAIN ns |->
        IF ValidSnapshot(ns, sn) THEN StartFrom(sn, Name(ns[i])) ELSE StartedNil]

\* start(ins, snapshot) with k edges in ins; it returns nil
start(k, sn) ==
    /\ tphase = "linked"
    /\ tphase' = "started"
    /\ nExt' = k
    /\ snapshot' = sn
    /\ ins' = AddIns(ins, nodes[1], k)
    /\ started' = StartNodes(nodes, sn)
    /\ IF task.SnapshotInterval > 0
       THEN /\ wg' = wg + 1
            /\ stopSnapshotter' = "open"
            /\ spc' = "splay"
       ELSE UNCHANGED workerVars
    /\ tret' = Returned("start", 0)
    /\ UNCHANGED <<task, nodes, runVars, otherVars>>

\* no snapshot
NoSnapshot == [nil |-> TRUE, NodeSnapshots |-> <<>>]

\* the bytes a snapshot may hold under key k
Bytes(k) == {<<>>, <<k>>}

\* the snapshots: any set of keys among the names and one name more
Snapshots ==
    {NoSnapshot} \cup
    UNION { { [nil |-> FALSE, NodeSnapshots |-> f] :
                f \in { g \in [K -> UNION {Bytes(k) : k \in K}] :
                          \A k \in K : g[k] \in Bytes(k) } } :
            K \in SUBSET (1 .. MaxNodes + 1) }

\* no alert node
NoAlertNode ==
    /\ n = <<>>
    /\ phase = "none"
    /\ Unbuilt
    /\ Idle

(***************************************************************************)
(* NewExecutingTask and start, for every pipeline and every snapshot.      *)
(***************************************************************************)
StartTasks ==
    UNION { { Task(StreamTask, ps, u, {}, iv) :
                ps \in Pipelines(c), u \in 0 .. c, iv \in {0, 1} } :
            c \in 1 .. MaxNodes }

InitStart ==
    /\ NoLexer
    /\ batcher = NoBatcher
    /\ task \in StartTasks
    /\ TaskIdle
    /\ NoAlertNode

NextStart ==
    \/ NewExecutingTask
    \/ \E k \in 0 .. MaxIns, sn \in Snapshots : start(k, sn)

SpecStart == InitStart /\ [][NextStart]_vars

\* the names of the executing nodes
Names == {Name(nodes[i]) : i \in DOMAIN nodes}

\* the keys of the snapshot given to start
Keys == DOMAIN snapshot.NodeSnapshots

\* start was called with a snapshot
Restored == tphase = "started" /\ ~snapshot.nil

\* C11: when start is given a snapshot, either every node name is a key and
\* each node is started with the bytes stored under its own name, or a name
\* is missing and every node is started with nil; start returns no error.
C11_AllOrNothing ==
    Restored =>
        /\ tret = Returned("start", 0)
        /\ IF Names \subseteq Keys
           THEN \A i \in DOMAIN nodes :
                   started[i] = StartedWith(snapshot.NodeSnapshots[Name(nodes[i])])
           ELSE \A i \in DOMAIN nodes : started[i] = StartedNil

\* a snapshot that holds non-empty bytes for one node and nothing for another
C11_Witness ==
    /\ Restored
    /\ \E i \in Names \cap Keys : snapshot.NodeSnapshots[i] # <<>>
    /\ Names \ Keys # {}
    /\ \A i \in DOMAIN nodes : started[i] = StartedNil

\* C12: whenever the snapshot's key set differs from the node-name set, also
\* when it only holds keys of nodes no longer in the pipeline, every node is
\* started with nil state.
C12_MismatchColdStart ==
    (Restored /\ Keys # Names) => \A i \in DOMAIN nodes : started[i] = StartedNil

\* C18: after link and after start every executing node has as many input
\* edges as its pipeline node has parents.
C18_InsEqualParents ==
    tphase \in {"linked", "started"} =>
        \A i \in DOMAIN nodes : Len(ins[i]) = Len(task.Parents[i])

\* C18: every executing node has as many input edges as its pipeline node has
\* parents, except that the source also holds the edges given to start.
C18_InsEqualParentsAndGiven ==
    tphase \in {"linked", "started"} =>
        \A i \in DOMAIN nodes :
            Len(ins[i]) = Len(task.Parents[i]) + (IF i = 1 THEN nExt ELSE 0)

\* a started task with a node of two parents and edges given to start
C18_Witness ==
    /\ tphase = "started"
    /\ nExt > 0
    /\ \E i \in DOMAIN nodes : Len(task.Parents[i]) = 2 /\ Len(ins[i]) = 2

(***************************************************************************)
(* The snapshotter worker, stop and Err.                                   *)
(***************************************************************************)
MaxBytes == 1
MaxRunNodes == 2

\* the timer of the splay select fires
SplayTimer ==
    /\ spc = "splay"
    /\ spc' = "ticking"
    /\ UNCHANGED <<task, tphase, linkVars, startVars, stopSnapshotter, wg, tret,
                   runVars, otherVars>>

\* the splay select receives from the closed channel: return, wg.Done
SplayStop ==
    /\ spc = "splay"
    /\ stopSnapshotter = "closed"
    /\ spc' = "done"
    /\ wg' = wg - 1
    /\ UNCHANGED <<task, tphase, linkVars, startVars, stopSnapshotter, tret,
                   runVars, otherVars>>

\* what n.snapshot() may return: -1 for an error, else the length of the data
SnapshotResults == {0 - 1} \cup (0 .. MaxBytes)

RECURSIVE SnapshotWalk(_, _, _)
\* Snapshot(): the walk returns at the first error, else the map is filled;
\* m maps the names written so far to the length of their data
SnapshotWalk(r, i, m) ==
    IF i > Len(r) THEN [ok |-> TRUE, NodeSnapshots |-> m]
    ELSE IF r[i] < 0 THEN [ok |-> FALSE, NodeSnapshots |-> <<>>]
    ELSE SnapshotWalk(r, i + 1, m @@ (Name(i) :> r[i]))

RECURSIVE Size(_, _)
\* size += len(data) over the entries K of the map
Size(m, K) ==
    IF K = {} THEN 0
    ELSE LET k == CHOOSE x \in K : TRUE IN m[k] + Size(m, K \ {k})

\* SaveSnapshot whatever the size
SavesAnySize(size) == TRUE

\* if size > 0
Saves(size) == size > 0

\* case <-ticker.C of the loop; r are the results of the nodes' snapshot()
Tick ==
    /\ spc = "ticking"
    /\ \E r \in [DOMAIN nodes -> SnapshotResults] :
        LET sn == SnapshotWalk(r, 1, <<>>)
        IN  tick' = [ticked |-> TRUE, results |-> r,
                     saved |-> IF sn.ok
                               THEN Saves(Size(sn.NodeSnapshots, DOMAIN sn.NodeSnapshots))
                               ELSE FALSE]
    /\ UNCHANGED <<task, tphase, linkVars, startVars, workerVars, tret, mpc,
                   stopErr, errs, consulted, otherVars>>

\* case <-et.stopSnapshotter of the loop: return, ticker.Stop, wg.Done
TickStop ==
    /\ spc = "ticking"
    /\ stopSnapshotter = "closed"
    /\ spc' = "done"
    /\ wg' = wg - 1
    /\ UNCHANGED <<task, tphase, linkVars, startVars, stopSnapshotter, tret,
                   runVars, otherVars>>

\* the terminal errors the nodes' workers may end with: none, or its own
NodeErrors(ns) == {e \in [DOMAIN ns -> 0 .. Len(ns)] : \A i \in DOMAIN ns : e[i] \in {0, i}}

\* n.Err() retains the node's error: a worker ends once
Retained(e, old) == old = <<>> \/ e = old

\* stop begins: close(et.stopSnapshotter) when SnapshotInterval > 0; closing a
\* nil or a closed channel panics
StopClose ==
    /\ tphase \in {"linked", "started", "stopped"}
    /\ mpc = "idle"
    /\ IF task.SnapshotInterval > 0
       THEN IF stopSnapshotter = "open"
            THEN /\ stopSnapshotter' = "closed"
                 /\ mpc' = "walk"
                 /\ UNCHANGED tphase
            ELSE /\ tphase' = "panic"
                 /\ UNCHANGED <<stopSnapshotter, mpc>>
       ELSE /\ mpc' = "walk"
            /\ UNCHANGED <<stopSnapshotter, tphase>>
    /\ UNCHANGED <<task, linkVars, startVars, wg, spc, tret, stopErr, errs,
                   consulted, tick, otherVars>>

\* the walk of stop keeping the first non-nil error instead of the last
StopWalkKeepsFirst(e, i, err) ==
    LET failed == {j \in DOMAIN e : j >= i /\ e[j] # 0}
    IN  IF failed = {} THEN err
        ELSE e[CHOOSE j \in failed : \A k \in failed : j <= k]

RECURSIVE StopWalk(_, _, _)
\* the walk of stop: e := n.Err(); if e != nil { err = e }
StopWalk(e, i, err) ==
    IF i > Len(e) THEN err
    ELSE StopWalk(e, i + 1, IF e[i] # 0 THEN e[i] ELSE err)

\* stop stops every node and reads its error
StopNodes ==
    /\ mpc = "walk"
    /\ \E e \in NodeErrors(nodes) :
        /\ Retained(e, errs)
        /\ errs' = e
        /\ stopErr' = StopWalk(e, 1, 0)
    /\ mpc' = "wait"
    /\ UNCHANGED <<task, tphase, linkVars, startVars, workerVars, tret,
                   consulted, tick, otherVars>>

\* wg.Wait() that does not wait
WaitsNever(w) == TRUE

\* wg.Wait() returns when the counter is zero
Waits(w) == w = 0

\* et.wg.Wait(); return
StopReturn ==
    /\ mpc = "wait"
    /\ Waits(wg)
    /\ mpc' = "idle"
    /\ tphase' = "stopped"
    /\ tret' = Returned("stop", stopErr)
    /\ UNCHANGED <<task, linkVars, startVars, workerVars, stopErr, errs,
                   consulted, tick, otherVars>>

\* the nodes in walk order
WalkOrder(c) == [k \in 1 .. c |-> k]

\* rwalk: for i := len(et.nodes) - 1; i >= 0; i--
RWalkOrder(c) == [k \in 1 .. c |-> c + 1 - k]

RECURSIVE ErrWalk(_, _, _, _)
\* f(et.nodes[i]) in the given order, returning at the first non-nil error;
\* seen are the nodes asked so far
ErrWalk(e, order, k, seen) ==
    IF k > Len(order) THEN [err |-> 0, consulted |-> seen]
    ELSE IF e[order[k]] # 0
         THEN [err |-> e[order[k]], consulted |-> seen \cup {order[k]}]
         ELSE ErrWalk(e, order, k + 1, seen \cup {order[k]})

\* Err(): the reverse walk over n.Err()
Err ==
    /\ tphase \in {"started", "stopped"}
    /\ \E e \in NodeErrors(nodes) :
        /\ Retained(e, errs)
        /\ errs' = e
        /\ LET r == ErrWalk(e, RWalkOrder(Len(nodes)), 1, {})
           IN  /\ tret' = Returned("Err", r.err)
               /\ consulted' = r.consulted
    /\ UNCHANGED <<task, tphase, linkVars, startVars, workerVars, mpc, stopErr,
                   tick, otherVars>>

\* the pipeline of c nodes in a line
Chain(c) == [i \in 1 .. c |-> IF i = 1 THEN <<>> ELSE <<i - 1>>]

RunTasks ==
    { Task(StreamTask, Chain(c), 0, {}, iv) : c \in 1 .. MaxRunNodes, iv \in {0, 1} }

InitTask ==
    /\ NoLexer
    /\ batcher = NoBatcher
    /\ task \in RunTasks
    /\ TaskIdle
    /\ NoAlertNode

NextTask ==
    \/ NewExecutingTask
    \/ start(0, NoSnapshot)
    \/ SplayTimer
    \/ SplayStop
    \/ Tick
    \/ TickStop
    \/ StopClose
    \/ StopNodes
    \/ StopReturn
    \/ Err

SpecTask == InitTask /\ [][NextTask]_vars

\* the select of the worker takes a ready case: once the channel is closed
\* the receive from it stays ready until it is taken
SpecTaskFair == SpecTask /\ WF_vars(SplayStop) /\ WF_vars(TickStop)

\* stop has returned on a task that runs a snapshotter
StopReturned == tphase = "stopped" /\ task.SnapshotInterval > 0

C13_StopAwaitsWorker == StopReturned => (spc = "done" /\ wg = 0)

C13_NoTickAfterStop == StopReturned => tick' = tick

C13_WorkerExits == (stopSnapshotter = "closed") ~> (spc = "done")

\* C13: for a started task with a snapshot interval, stop returns only after
\* the snapshotter worker has exited, from its splay wait or from its tick
\* loop; no tick (Snapshot, SaveSnapshot) happens after stop has returned; and
\* once the stop channel is closed the worker eventually exits.
C13_StopSynchronous ==
    /\ []C13_StopAwaitsWorker
    /\ [][C13_NoTickAfterStop]_vars
    /\ C13_WorkerExits

\* stop returned on a task whose worker had reached its tick loop and ticked
C13_Witness ==
    /\ StopReturned
    /\ tret.op = "stop"
    /\ tick.ticked
    /\ spc = "done"

\* C14: on every tick SaveSnapshot is called iff every node's snapshot()
\* succeeded and the lengths of the data add up to more than zero.
C14_SaveIffContent ==
    tick.ticked =>
        (tick.saved <=>
            /\ \A i \in DOMAIN tick.results : tick.results[i] >= 0
            /\ \E i \in DOMAIN tick.results : tick.results[i] > 0)

\* a tick on which every node of several returned empty data: nothing saved
C14_Witness ==
    /\ tick.ticked
    /\ Len(tick.results) >= 2
    /\ \A i \in DOMAIN tick.results : tick.results[i] = 0
    /\ ~tick.saved

\* the nodes whose worker ended with an error
Failed == {i \in DOMAIN errs : errs[i] # 0}

\* C15: Err() returns the error of the failed node latest in walk order and
\* has asked exactly that node and the nodes after it; it returns nil, having
\* asked every node, only when no node has an error.
C15_ErrLatestFailed ==
    tret.op = "Err" =>
        IF Failed = {}
        THEN tret.err = 0 /\ consulted = DOMAIN nodes
        ELSE /\ tret.err = errs[MaxOf(Failed)]
             /\ tret.err # 0
             /\ consulted = MaxOf(Failed) .. Len(nodes)

\* Err() on a task where the first node and a later one failed
C15_Witness ==
    /\ tret.op = "Err"
    /\ 1 \in Failed
    /\ Cardinality(Failed) >= 2
    /\ 1 \notin consulted

(***************************************************************************)
(* The batch-only operations.                                              *)
(***************************************************************************)
MaxDBRPs == 2
MaxQueries == 2

ErrWrongTaskType == 0 - 1
\* "batch query is not allowed to request data from ..."
ErrNotAllowed == 0 - 2
\* the error of batcher.DBRPs()
ErrDBRPs == 0 - 3

\* et.Task.Type != BatchTask never holding
WrongTypeNever(t) == FALSE

\* et.Task.Type != BatchTask
WrongType(t) == t.Type # BatchTask

\* CreateDBRPMap: the set of the task's DBRPs
CreateDBRPMap(dbrps) == dbrps

\* the loop of checkDBRPs looking at the first DBRP only
DeniedFirst(dbMap, dbrps) == dbrps # <<>> /\ dbrps[1] \notin dbMap

\* the loop of checkDBRPs finds a DBRP that is not in the map
Denied(dbMap, dbrps) == \E i \in 1 .. Len(dbrps) : dbrps[i] \notin dbMap

\* checkDBRPs: the error it returns, 0 for nil
checkDBRPs(t, b) ==
    IF b.failing THEN ErrDBRPs
    ELSE IF Denied(CreateDBRPMap(t.DBRPs), b.dbrps) THEN ErrNotAllowed
    ELSE 0

BatchVars ==
    <<task, tphase, linkVars, startVars, workerVars, runVars, alertVars, lexVars>>

StartBatching ==
    /\ tphase \in {"linked", "started"}
    /\ IF WrongType(task)
       THEN /\ tret' = Returned("StartBatching", ErrWrongTaskType)
            /\ UNCHANGED batcher
       ELSE LET err == checkDBRPs(task, batcher)
            IN  /\ tret' = Returned("StartBatching", err)
                /\ batcher' = [batcher EXCEPT !.asked = TRUE,
                                              !.started = @ \/ err = 0]
    /\ UNCHANGED BatchVars

BatchCount ==
    /\ tphase \in {"linked", "started"}
    /\ IF WrongType(task)
       THEN /\ tret' = Returned("BatchCount", ErrWrongTaskType)
            /\ UNCHANGED batcher
       ELSE /\ tret' = Returned("BatchCount", 0)
            /\ batcher' = [batcher EXCEPT !.counted = TRUE]
    /\ UNCHANGED BatchVars

BatchQueries ==
    /\ tphase \in {"linked", "started"}
    /\ IF WrongType(task)
       THEN /\ tret' = Returned("BatchQueries", ErrWrongTaskType)
            /\ UNCHANGED batcher
       ELSE LET err == checkDBRPs(task, batcher)
            IN  /\ tret' = Returned("BatchQueries", err)
                /\ batcher' = [batcher EXCEPT !.asked = TRUE,
                                              !.queried = @ \/ err = 0]
    /\ UNCHANGED BatchVars

\* the database/retention-policy pairs
DBRP == 1 .. MaxDBRPs

\* the lists of DBRPs a source batch node may report
Reported == UNION {[1 .. k -> DBRP] : k \in 0 .. MaxQueries}

BatchTasks ==
    { Task(type, Chain(2), 0, dbrps, 0) :
        type \in {StreamTask, BatchTask}, dbrps \in SUBSET DBRP }

InitBatch ==
    /\ NoLexer
    /\ task \in BatchTasks
    /\ batcher \in {Batcher(TRUE, <<>>)} \cup {Batcher(FALSE, l) : l \in Reported}
    /\ TaskIdle
    /\ NoAlertNode

NextBatch ==
    \/ NewExecutingTask
    \/ start(0, NoSnapshot)
    \/ StartBatching
    \/ BatchCount
    \/ BatchQueries

SpecBatch == InitBatch /\ [][NextBatch]_vars

\* the DBRPs() of the source batch node of a batch task returned a list
Reports == task.Type = BatchTask /\ ~batcher.failing

\* the list holds a DBRP the task does not allow
Disallowed == \E i \in 1 .. Len(batcher.dbrps) : batcher.dbrps[i] \notin task.DBRPs

\* C16: when a DBRP reported by the source batch node is not in the task's
\* set, StartBatching and BatchQueries return an error and neither Start nor
\* Queries is ever called; when every reported DBRP is allowed they return
\* nil, StartBatching having called Start and BatchQueries Queries.
C16_DBRPsChecked ==
    Reports =>
        IF Disallowed
        THEN /\ ~batcher.started
             /\ ~batcher.queried
             /\ tret.op \in {"StartBatching", "BatchQueries"} => tret.err = ErrNotAllowed
        ELSE /\ tret.op = "StartBatching" => (tret.err = 0 /\ batcher.started)
             /\ tret.op = "BatchQueries" => (tret.err = 0 /\ batcher.queried)

\* a rejected call on a batcher whose first DBRP is allowed and second is not
C16_Witness ==
    /\ Reports
    /\ tret.op \in {"StartBatching", "BatchQueries"}
    /\ Len(batcher.dbrps) = 2
    /\ batcher.dbrps[1] \in task.DBRPs
    /\ batcher.dbrps[2] \notin task.DBRPs
    /\ batcher.asked

\* C17: on a stream task StartBatching, BatchCount and BatchQueries return
\* ErrWrongTaskType and change nothing else: no method of the source node is
\* called.
C17_StreamRejected ==
    [][(task.Type = StreamTask /\ tret'.op \in {"StartBatching", "BatchCount", "BatchQueries"})
          => /\ tret'.err = ErrWrongTaskType
             /\ UNCHANGED <<batcher, BatchVars>>]_vars

\* a batch-only call returned on a stream task whose DBRPs would all pass
C17_Witness ==
    /\ task.Type = StreamTask
    /\ tret.op \in {"StartBatching", "BatchCount", "BatchQueries"}
    /\ ~batcher.failing
    /\ ~Disallowed

(***************************************************************************)
(* The lexer of the DSL (package tick).  A source is a sequence of         *)
(* characters, each a string; "mu" stands for the micro sign, the one      *)
(* character of the DSL that takes two bytes.                              *)
(***************************************************************************)
MaxLen == 4

Space == {" ", "\t", "\n"}
Digits == {"0", "1", "2", "3", "4", "5", "6", "7", "8", "9"}
Letters ==
    {"a", "b", "c", "d", "e", "f", "g", "h", "i", "j", "k", "l", "m", "n", "o",
     "p", "q", "r", "s", "t", "u", "v", "w", "x", "y", "z", "A", "B", "C", "D",
     "E", "F", "G", "H", "I", "J", "K", "L", "M", "N", "O", "P", "Q", "R", "S",
     "T", "U", "V", "W", "X", "Y", "Z", "_"}

\* every character one position wide
WidthInRunes(c) == 1

\* the bytes of a character
Width(c) == IF c = "mu" THEN 2 ELSE 1

RECURSIVE Offset(_, _)
\* the byte offset of the i-th character of s
Offset(s, i) == IF i <= 1 THEN 0 ELSE Offset(s, i - 1) + Width(s[i - 1])

\* the i-th character of s, "eof" past its end
At(s, i) == IF i \in 1 .. Len(s) THEN s[i] ELSE "eof"

RECURSIVE CommentEnd(_, _)
\* a line comment runs to the next newline, inclusive, or to the end
CommentEnd(s, j) ==
    IF j > Len(s) THEN j
    ELSE IF s[j] = "\n" THEN j + 1
    ELSE CommentEnd(s, j + 1)

RECURSIVE Skip(_, _, _)
\* whitespace and comments are not emitted; after =~, !~ and = (ctx) a slash
\* opens a regex, never a comment
Skip(s, i, ctx) ==
    IF At(s, i) \in Space THEN Skip(s, i + 1, ctx)
    ELSE IF ~ctx /\ At(s, i) = "/" /\ At(s, i + 1) = "/"
         THEN Skip(s, CommentEnd(s, i + 2), ctx)
    ELSE i

RECURSIVE ScanWhile(_, _, _)
\* the first index from i on whose character is not in C
ScanWhile(s, i, C) == IF At(s, i) \in C THEN ScanWhile(s, i + 1, C) ELSE i

\* Number: [0-9]+ ('.' [0-9]+)?
NumberEnd(s, i) ==
    LET j == ScanWhile(s, i, Digits)
    IN  IF At(s, j) = "." /\ At(s, j + 1) \in Digits
        THEN ScanWhile(s, j + 1, Digits)
        ELSE j

\* the length of the duration unit at j, 0 if none; ms before m
UnitLen(s, j) ==
    IF At(s, j) = "m" /\ At(s, j + 1) = "s" THEN 2
    ELSE IF At(s, j) \in {"u", "mu", "s", "m", "h", "d", "w"} THEN 1
    ELSE 0

\* the kind of an identifier: the reserved words have their own
WordKind(lit) ==
    IF lit = <<"A", "N", "D">> THEN "TokenAnd"
    ELSE IF lit = <<"O", "R">> THEN "TokenOr"
    ELSE IF lit = <<"T", "R", "U", "E">> THEN "TokenTrue"
    ELSE IF lit = <<"F", "A", "L", "S", "E">> THEN "TokenFalse"
    ELSE IF lit = <<"v", "a", "r">> THEN "TokenVar"
    ELSE "TokenIdent"

RECURSIVE Close(_, _, _)
\* the index of the closing q from j on, a backslash escaping a q; 0 if none
Close(s, j, q) ==
    IF j > Len(s) THEN 0
    ELSE IF s[j] = "\\" /\ At(s, j + 1) = q THEN Close(s, j + 2, q)
    ELSE IF s[j] = q THEN j
    ELSE Close(s, j + 1, q)

RECURSIVE TripleClose(_, _)
\* the index of the last quote of the first ''' from j on that no backslash
\* precedes; 0 if none
TripleClose(s, j) ==
    IF j + 2 > Len(s) THEN 0
    ELSE IF s[j] = "\\" /\ s[j + 1] = "'" THEN TripleClose(s, j + 2)
    ELSE IF s[j] = "'" /\ s[j + 1] = "'" /\ s[j + 2] = "'" THEN j + 2
    ELSE TripleClose(s, j + 1)

\* a token of the given kind over the characters from .. to - 1
Span(kind, from, to) == [kind |-> kind, from |-> from, to |-> to]

\* a quoted token that ends at its closing character, an error if there is none
Quoted(kind, from, close) ==
    IF close = 0 THEN Span("TokenError", from, from) ELSE Span(kind, from, close + 1)

\* the token that begins at the character j of s
Lex(s, j, ctx) ==
    LET c == At(s, j)
        d == At(s, j + 1)
    IN  IF j > Len(s) THEN Span("TokenEOF", j, j)
        ELSE IF c = "(" THEN Span("TokenLParen", j, j + 1)
        ELSE IF c = ")" THEN Span("TokenRParen", j, j + 1)
        ELSE IF c = "." THEN Span("TokenDot", j, j + 1)
        ELSE IF c = "+" THEN Span("TokenPlus", j, j + 1)
        ELSE IF c = "-" THEN Span("TokenMinus", j, j + 1)
        ELSE IF c = "*" THEN Span("TokenMult", j, j + 1)
        ELSE IF c = "/" THEN
            IF ctx THEN Quoted("TokenRegex", j, Close(s, j + 1, "/"))
            ELSE Span("TokenDiv", j, j + 1)
        ELSE IF c = "=" THEN
            IF d = "=" THEN Span("TokenEqual", j, j + 2)
            ELSE IF d = "~" THEN Span("TokenRegexEqual", j, j + 2)
            ELSE Span("TokenAsgn", j, j + 1)
        ELSE IF c = "!" THEN
            IF d = "=" THEN Span("TokenNotEqual", j, j + 2)
            ELSE IF d = "~" THEN Span("TokenRegexNotEqual", j, j + 2)
            ELSE Span("TokenNot", j, j + 1)
        ELSE IF c = ">" THEN
            IF d = "=" THEN Span("TokenGreaterEqual", j, j + 2)
            ELSE Span("TokenGreater", j, j + 1)
        ELSE IF c = "<" THEN
            IF d = "=" THEN Span("TokenLessEqual", j, j + 2)
            ELSE Span("TokenLess", j, j + 1)
        ELSE IF c \in Digits THEN
            LET e == NumberEnd(s, j)
            IN  IF UnitLen(s, e) > 0 THEN Span("TokenDuration", j, e + UnitLen(s, e))
                ELSE Span("TokenNumber", j, e)
        ELSE IF c \in Letters THEN
            LET e == ScanWhile(s, j, Letters \cup Digits)
            IN  Span(WordKind(SubSeq(s, j, e - 1)), j, e)
        ELSE IF c = "\"" THEN Quoted("TokenReference", j, Close(s, j + 1, "\""))
        ELSE IF c = "'" THEN
            IF d = "'" /\ At(s, j + 2) = "'"
            THEN Quoted("TokenString", j, TripleClose(s, j + 3))
            ELSE Quoted("TokenString", j, Close(s, j + 1, "'"))
        ELSE Span("TokenError", j, j)

\* a token as the lexer emits it: kind, byte offset of its first character,
\* literal
Token(kind, pos, lit) == [kind |-> kind, pos |-> pos, lit |-> lit]

\* the kinds after which a slash opens a regex
RegexContext == {"TokenRegexEqual", "TokenRegexNotEqual", "TokenAsgn"}

\* the last token emitted was one of =~, !~, =
InRegexContext(ts) == ts # <<>> /\ ts[Len(ts)].kind \in RegexContext

\* nextToken: the next token of the source; after EOF or an error no more
nextToken ==
    /\ lstate = "lexing"
    /\ LET ctx == InRegexContext(tokens)
           t == Lex(source, Skip(source, lpos, ctx), ctx)
       IN  /\ tokens' = Append(tokens, Token(t.kind, Offset(source, t.from),
                                             SubSeq(source, t.from, t.to - 1)))
           /\ lpos' = t.to
           /\ lstate' = IF t.kind = "TokenEOF" THEN "done"
                        ELSE IF t.kind = "TokenError" THEN "error"
                        ELSE "lexing"
    /\ UNCHANGED <<source, taskVars, alertVars>>

\* the cases of TestLexer: a source and the tokens expected from it
TestCases == <<
    [in |-> <<"!">>,
     tokens |-> <<
        Token("TokenNot", 0, <<"!">>),
        Token("TokenEOF", 1, <<>>)>>],
    [in |-> <<"+">>,
     tokens |-> <<
        Token("TokenPlus", 0, <<"+">>),
        Token("TokenEOF", 1, <<>>)>>],
    [in |-> <<"-">>,
     tokens |-> <<
        Token("TokenMinus", 0, <<"-">>),
        Token("TokenEOF", 1, <<>>)>>],
    [in |-> <<"*">>,
     tokens |-> <<
        Token("TokenMult", 0, <<"*">>),
        Token("TokenEOF", 1, <<>>)>>],
    [in |-> <<"/">>,
     tokens |-> <<
        Token("TokenDiv", 0, <<"/">>),
        Token("TokenEOF", 1, <<>>)>>],
    [in |-> <<"=">>,
     tokens |-> <<
        Token("TokenAsgn", 0, <<"=">>),
        Token("TokenEOF", 1, <<>>)>>],
    [in |-> <<"=", "=">>,
     tokens |-> <<
        Token("TokenEqual", 0, <<"=", "=">>),
        Token("TokenEOF", 2, <<>>)>>],
    [in |-> <<"!", "=">>,
     tokens |-> <<
        Token("TokenNotEqual", 0, <<"!", "=">>),
        Token("TokenEOF", 2, <<>>)>>],
    [in |-> <<">">>,
     tokens |-> <<
        Token("TokenGreater", 0, <<">">>),
        Token("TokenEOF", 1, <<>>)>>],
    [in |-> <<">", "=">>,
     tokens |-> <<
        Token("TokenGreaterEqual", 0, <<">", "=">>),
        Token("TokenEOF", 2, <<>>)>>],
    [in |-> <<"<">>,
     tokens |-> <<
        Token("TokenLess", 0, <<"<">>),
        Token("TokenEOF", 1, <<>>)>>],
    [in |-> <<"<", "=">>,
     tokens |-> <<
        Token("TokenLessEqual", 0, <<"<", "=">>),
        Token("TokenEOF", 2, <<>>)>>],
    [in |-> <<"=", "~">>,
     tokens |-> <<
        Token("TokenRegexEqual", 0, <<"=", "~">>),
        Token("TokenEOF", 2, <<>>)>>],
    [in |-> <<"!", "~">>,
     tokens |-> <<
        Token("TokenRegexNotEqual", 0, <<"!", "~">>),
        Token("TokenEOF", 2, <<>>)>>],
    [in |-> <<"(">>,
     tokens |-> <<
        Token("TokenLParen", 0, <<"(">>),
        Token("TokenEOF", 1, <<>>)>>],
    [in |-> <<")">>,
     tokens |-> <<
        Token("TokenRParen", 0, <<")">>),
        Token("TokenEOF", 1, <<>>)>>],
    [in |-> <<".">>,
     tokens |-> <<
        Token("TokenDot", 0, <<".">>),
        Token("TokenEOF", 1, <<>>)>>],
    [in |-> <<"A", "N", "D">>,
     tokens |-> <<
        Token("TokenAnd", 0, <<"A", "N", "D">>),
        Token("TokenEOF", 3, <<>>)>>],
    [in |-> <<"O", "R">>,
     tokens |-> <<
        Token("TokenOr", 0, <<"O", "R">>),
        Token("TokenEOF", 2, <<>>)>>],
    [in |-> <<"T", "R", "U", "E">>,
     tokens |-> <<
        Token("TokenTrue", 0, <<"T", "R", "U", "E">>),
        Token("TokenEOF", 4, <<>>)>>],
    [in |-> <<"F", "A", "L", "S", "E">>,
     tokens |-> <<
        Token("TokenFalse", 0, <<"F", "A", "L", "S", "E">>),
        Token("TokenEOF", 5, <<>>)>>],
    [in |-> <<"v", "a", "r">>,
     tokens |-> <<
        Token("TokenVar", 0, <<"v", "a", "r">>),
        Token("TokenEOF", 3, <<>>)>>],
    [in |-> <<"4", "2">>,
     tokens |-> <<
        Token("TokenNumber", 0, <<"4", "2">>),
        Token("TokenEOF", 2, <<>>)>>],
    [in |-> <<"4", "2", ".", "2", "1">>,
     tokens |-> <<
        Token("TokenNumber", 0, <<"4", "2", ".", "2", "1">>),
        Token("TokenEOF", 5, <<>>)>>],
    [in |-> <<".", "4", "2", "1">>,
     tokens |-> <<
        Token("TokenDot", 0, <<".">>),
        Token("TokenNumber", 1, <<"4", "2", "1">>),
        Token("TokenEOF", 4, <<>>)>>],
    [in |-> <<"0", ".", "4", "2", "1">>,
     tokens |-> <<
        Token("TokenNumber", 0, <<"0", ".", "4", "2", "1">>),
        Token("TokenEOF", 5, <<>>)>>],
    [in |-> <<"4", "2", "s">>,
     tokens |-> <<
        Token("TokenDuration", 0, <<"4", "2", "s">>),
        Token("TokenEOF", 3, <<>>)>>],
    [in |-> <<"4", "2", ".", "2", "1", "m">>,
     tokens |-> <<
        Token("TokenDuration", 0, <<"4", "2", ".", "2", "1", "m">>),
        Token("TokenEOF", 6, <<>>)>>],
    [in |-> <<".", "4", "2", "1", "h">>,
     tokens |-> <<
        Token("TokenDot", 0, <<".">>),
        Token("TokenDuration", 1, <<"4", "2", "1", "h">>),
        Token("TokenEOF", 5, <<>>)>>],
    [in |-> <<"0", ".", "4", "2", "1", "s">>,
     tokens |-> <<
        Token("TokenDuration", 0, <<"0", ".", "4", "2", "1", "s">>),
        Token("TokenEOF", 6, <<>>)>>],
    [in |-> <<"1", "u">>,
     tokens |-> <<
        Token("TokenDuration", 0, <<"1", "u">>),
        Token("TokenEOF", 2, <<>>)>>],
    [in |-> <<"1", "mu">>,
     tokens |-> <<
        Token("TokenDuration", 0, <<"1", "mu">>),
        Token("TokenEOF", 3, <<>>)>>],
    [in |-> <<"1", "m", "s">>,
     tokens |-> <<
        Token("TokenDuration", 0, <<"1", "m", "s">>),
        Token("TokenEOF", 3, <<>>)>>],
    [in |-> <<"1", "h">>,
     tokens |-> <<
        Token("TokenDuration", 0, <<"1", "h">>),
        Token("TokenEOF", 2, <<>>)>>],
    [in |-> <<"1", "d">>,
     tokens |-> <<
        Token("TokenDuration", 0, <<"1", "d">>),
        Token("TokenEOF", 2, <<>>)>>],
    [in |-> <<"1", "w">>,
     tokens |-> <<
        Token("TokenDuration", 0, <<"1", "w">>),
        Token("TokenEOF", 2, <<>>)>>],
    [in |-> <<"v", "a", "r", "i", "a", "b", "l", "e">>,
     tokens |-> <<
        Token("TokenIdent", 0, <<"v", "a", "r", "i", "a", "b", "l", "e">>),
        Token("TokenEOF", 8, <<>>)>>],
    [in |-> <<"m", "y", "V", "a", "r", "0", "1">>,
     tokens |-> <<
        Token("TokenIdent", 0, <<"m", "y", "V", "a", "r", "0", "1">>),
        Token("TokenEOF", 7, <<>>)>>],
    [in |-> <<"\"", "\"">>,
     tokens |-> <<
        Token("TokenReference", 0, <<"\"", "\"">>),
        Token("TokenEOF", 2, <<>>)>>],
    [in |-> <<"\"", "r", "e", "f", " ", "w", "i", "t", "h", " ", "s", "p",
            "a", "c", "e", "s", "\"">>,
     tokens |-> <<
        Token("TokenReference", 0, <<"\"", "r", "e", "f", " ", "w", "i",
            "t", "h", " ", "s", "p", "a", "c", "e", "s", "\"">>),
        Token("TokenEOF", 17, <<>>)>>],
    [in |-> <<"\"", "r", "e", "f", "\\", "\"", "\"">>,
     tokens |-> <<
        Token("TokenReference", 0, <<"\"", "r", "e", "f", "\\", "\"",
            "\"">>),
        Token("TokenEOF", 7, <<>>)>>],
    [in |-> <<"'", "'">>,
     tokens |-> <<
        Token("TokenString", 0, <<"'", "'">>),
        Token("TokenEOF", 2, <<>>)>>],
    [in |-> <<"'", "'", "'", "'", "'", "'">>,
     tokens |-> <<
        Token("TokenString", 0, <<"'", "'", "'", "'", "'", "'">>),
        Token("TokenEOF", 6, <<>>)>>],
    [in |-> <<"'", "s", "t", "r", "'">>,
     tokens |-> <<
        Token("TokenString", 0, <<"'", "s", "t", "r", "'">>),
        Token("TokenEOF", 5, <<>>)>>],
    [in |-> <<"'", "s", "t", "r", "\\", "'", "'">>,
     tokens |-> <<
        Token("TokenString", 0, <<"'", "s", "t", "r", "\\", "'", "'">>),
        Token("TokenEOF", 7, <<>>)>>],
    [in |-> <<"'", "'", "'", "s", "'", "t", "r", "'", "'", "'">>,
     tokens |-> <<
        Token("TokenString", 0, <<"'", "'", "'", "s", "'", "t", "r", "'",
            "'", "'">>),
        Token("TokenEOF", 10, <<>>)>>],
    [in |-> <<"'", "'", "'", "s", "\\", "'", "t", "r", "'", "'", "'">>,
     tokens |-> <<
        Token("TokenString", 0, <<"'", "'", "'", "s", "\\", "'", "t", "r",
            "'", "'", "'">>),
        Token("TokenEOF", 11, <<>>)>>],
    [in |-> <<"'", "'", "'", "s", "t", "r", "'", "'", "'">>,
     tokens |-> <<
        Token("TokenString", 0, <<"'", "'", "'", "s", "t", "r", "'", "'",
            "'">>),
        Token("TokenEOF", 9, <<>>)>>],
    [in |-> <<"=", "~", " ", "/", "/">>,
     tokens |-> <<
        Token("TokenRegexEqual", 0, <<"=", "~">>),
        Token("TokenRegex", 3, <<"/", "/">>),
        Token("TokenEOF", 5, <<>>)>>],
    [in |-> <<"!", "~", " ", "/", "/">>,
     tokens |-> <<
        Token("TokenRegexNotEqual", 0, <<"!", "~">>),
        Token("TokenRegex", 3, <<"/", "/">>),
        Token("TokenEOF", 5, <<>>)>>],
    [in |-> <<"=", " ", "/", "/">>,
     tokens |-> <<
        Token("TokenAsgn", 0, <<"=">>),
        Token("TokenRegex", 2, <<"/", "/">>),
        Token("TokenEOF", 4, <<>>)>>],
    [in |-> <<"=", " ", "/", "^", "(", "(", ".", "*", ")", "[", "a", "-", "z",
            "]", "+", "\\", "S", "{", "0", ",", "2", "}", ")", "|", "c", "a",
            "t", "\\", "/", "\\", "/", "$", "/">>,
     tokens |-> <<
        Token("TokenAsgn", 0, <<"=">>),
        Token("TokenRegex", 2, <<"/", "^", "(", "(", ".", "*", ")", "[",
            "a", "-", "z", "]", "+", "\\", "S", "{", "0", ",", "2", "}", ")",
            "|", "c", "a", "t", "\\", "/", "\\", "/", "$", "/">>),
        Token("TokenEOF", 33, <<>>)>>],
    [in |-> <<" ">>,
     tokens |-> <<
        Token("TokenEOF", 1, <<>>)>>],
    [in |-> <<" ", "\t", "\n">>,
     tokens |-> <<
        Token("TokenEOF", 3, <<>>)>>],
    [in |-> <<"v", "a", "r", " ", "x", " ", "=", " ", "a", "v", "g", "(",
            ")">>,
     tokens |-> <<
        Token("TokenVar", 0, <<"v", "a", "r">>),
        Token("TokenIdent", 4, <<"x">>),
        Token("TokenAsgn", 6, <<"=">>),
        Token("TokenIdent", 8, <<"a", "v", "g">>),
        Token("TokenLParen", 11, <<"(">>),
        Token("TokenRParen", 12, <<")">>),
        Token("TokenEOF", 13, <<>>)>>],
    [in |-> <<"v", "a", "r", " ", "x", " ", "=", " ", "a", "v", "g", "(", ")",
            ".", "p", "a", "r", "a", "l", "l", "e", "l", "(", "4", ")", "x",
            ".", "g", "r", "o", "u", "p", "b", "y", "(", "'", "c", "p", "u",
            "'", ")", ".", "w", "i", "n", "d", "o", "w", "(", ")", ".", "p",
            "e", "r", "i", "o", "d", "(", "1", "0", "s", ")">>,
     tokens |-> <<
        Token("TokenVar", 0, <<"v", "a", "r">>),
        Token("TokenIdent", 4, <<"x">>),
        Token("TokenAsgn", 6, <<"=">>),
        Token("TokenIdent", 8, <<"a", "v", "g">>),
        Token("TokenLParen", 11, <<"(">>),
        Token("TokenRParen", 12, <<")">>),
        Token("TokenDot", 13, <<".">>),
        Token("TokenIdent", 14, <<"p", "a", "r", "a", "l", "l", "e",
            "l">>),
        Token("TokenLParen", 22, <<"(">>),
        Token("TokenNumber", 23, <<"4">>),
        Token("TokenRParen", 24, <<")">>),
        Token("TokenIdent", 25, <<"x">>),
        Token("TokenDot", 26, <<".">>),
        Token("TokenIdent", 27, <<"g", "r", "o", "u", "p", "b", "y">>),
        Token("TokenLParen", 34, <<"(">>),
        Token("TokenString", 35, <<"'", "c", "p", "u", "'">>),
        Token("TokenRParen", 40, <<")">>),
        Token("TokenDot", 41, <<".">>),
        Token("TokenIdent", 42, <<"w", "i", "n", "d", "o", "w">>),
        Token("TokenLParen", 48, <<"(">>),
        Token("TokenRParen", 49, <<")">>),
        Token("TokenDot", 50, <<".">>),
        Token("TokenIdent", 51, <<"p", "e", "r", "i", "o", "d">>),
        Token("TokenLParen", 57, <<"(">>),
        Token("TokenDuration", 58, <<"1", "0", "s">>),
        Token("TokenRParen", 61, <<")">>),
        Token("TokenEOF", 62, <<>>)>>],
    [in |-> <<"v", "a", "r", " ", "x", " ", "=", " ", "a", "v", "g", "(", ")",
            "\n", "/", "/", " ", "C", "o", "m", "m", "e", "n", "t", " ", "a",
            "l", "l", " ", "o", "f", " ", "t", "h", "i", "s", " ", "i", "s",
            " ", "i", "g", "n", "o", "r", "e", "d", "\n", "x", ".", "g", "r",
            "o", "u", "p", "b", "y", "(", "'", "c", "p", "u", "'", ")">>,
     tokens |-> <<
        Token("TokenVar", 0, <<"v", "a", "r">>),
        Token("TokenIdent", 4, <<"x">>),
        Token("TokenAsgn", 6, <<"=">>),
        Token("TokenIdent", 8, <<"a", "v", "g">>),
        Token("TokenLParen", 11, <<"(">>),
        Token("TokenRParen", 12, <<")">>),
        Token("TokenIdent", 48, <<"x">>),
        Token("TokenDot", 49, <<".">>),
        Token("TokenIdent", 50, <<"g", "r", "o", "u", "p", "b", "y">>),
        Token("TokenLParen", 57, <<"(">>),
        Token("TokenString", 58, <<"'", "c", "p", "u", "'">>),
        Token("TokenRParen", 63, <<")">>),
        Token("TokenEOF", 64, <<>>)>>],
    [in |-> <<"v", "a", "r", " ", "x", " ", "=", " ", "a", "v", "g", "(", ")",
            "\n", "/", "/", " ", "C", "o", "m", "m", "e", "n", "t", " ", "a",
            "l", "l", " ", "o", "f", " ", "t", "h", "i", "s", " ", "i", "s",
            " ", "i", "g", "n", "o", "r", "e", "d">>,
     tokens |-> <<
        Token("TokenVar", 0, <<"v", "a", "r">>),
        Token("TokenIdent", 4, <<"x">>),
        Token("TokenAsgn", 6, <<"=">>),
        Token("TokenIdent", 8, <<"a", "v", "g">>),
        Token("TokenLParen", 11, <<"(">>),
        Token("TokenRParen", 12, <<")">>),
        Token("TokenEOF", 47, <<>>)>>]>>

TestInputs == {TestCases[k].in : k \in DOMAIN TestCases}

\* the characters of the sources that are tried exhaustively
Alphabet == {"\n", "/", "=", "1", "mu", "'"}

Sources == TestInputs \cup UNION {[1 .. k -> Alphabet] : k \in 0 .. MaxLen}

InitLex ==
    /\ source \in Sources
    /\ lpos = 1
    /\ tokens = <<>>
    /\ lstate = "lexing"
    /\ NoTask
    /\ NoAlertNode

NextLex == nextToken

SpecLex == InitLex /\ [][NextLex]_vars

\* the loop of TestLexer: on a source of the table the lexer returns the
\* expected tokens, and no other
TestLexer ==
    \A k \in DOMAIN TestCases :
        (source = TestCases[k].in /\ lstate # "lexing") =>
            tokens = TestCases[k].tokens

\* the length of a source in bytes
ByteLength(s) == Len(s) + Cardinality({i \in DOMAIN s : s[i] = "mu"})

\* C19: when the lexer has gone through a well-formed source, the tokens it
\* returned end in an EOF token whose position is the length of the source
\* in bytes; it is the only EOF token and nothing is returned after it.
C19_EndsInOneEOF ==
    /\ lstate = "done" =>
          /\ tokens # <<>>
          /\ tokens[Len(tokens)] = Token("TokenEOF", ByteLength(source), <<>>)
    /\ \A j \in 1 .. Len(tokens) :
          tokens[j].kind = "TokenEOF" => (j = Len(tokens) /\ lstate = "done")
    /\ lstate = "lexing" => lpos <= Len(source) + 1

\* a source that ends in a line comment without a newline, after a duration
\* in microseconds, has been lexed to its end
C19_Witness ==
    /\ lstate = "done"
    /\ Len(tokens) = 2
    /\ tokens[1].kind = "TokenDuration"
    /\ Len(source) = 4
    /\ source[2] = "mu"
    /\ source[3] = "/"
    /\ source[4] = "/"

(***************************************************************************)
(* The flap update of a batch (Spec).                                      *)
(***************************************************************************)
\* the number of updateFlapping calls in a log
FlapCalls(lg) == Cardinality({j \in 1 .. Len(lg) : lg[j].k = "flap"})

C21_UpdatedWithFirstTrigger ==
    (n.Wants = BatchEdge /\ n.UseFlapping /\ count > 0) =>
        /\ FlapCalls(log) <= 1
        /\ bIdx = 0 => FlapCalls(log) = 1
        /\ \A j \in Pos("flap") :
              /\ Newest(history, hIdx) = log[j].l
              /\ IF Triggers = {}
                 THEN log[j].l = NoAlert /\ log[j].i = 0 /\ bIdx = 0
                 ELSE \E t \in Triggers :
                         /\ log[j].l = log[t].l
                         /\ log[j].i = log[t].i
                         /\ \A k \in Pos("level") : k < t => log[k].l = NoAlert

C21_RingWrittenByUpdateOnly ==
    (phase = "running" /\ n.Wants = BatchEdge /\ (history' # history \/ hIdx' # hIdx))
        => FlapCalls(log') = FlapCalls(log) + 1

\* C21: in batch mode with flap detection the flap state is updated once per
\* batch, with the level of the first point above NoAlert, or with NoAlert
\* after the walk when no point is above NoAlert; the ring is written by that
\* update only, so no other point's level enters it.
C21_OneFlapUpdatePerBatch ==
    /\ []C21_UpdatedWithFirstTrigger
    /\ [][C21_RingWrittenByUpdateOnly]_vars

\* a batch whose first point stayed at NoAlert and whose second triggered
C21_Witness ==
    /\ n.Wants = BatchEdge
    /\ n.UseFlapping
    /\ bIdx = 0
    /\ Classified = {1, 2}
    /\ \E j \in Pos("flap") : log[j].i = 2 /\ log[j].l > NoAlert

(***************************************************************************)
(* The weights of the flap score (SpecFlap).                               *)
(***************************************************************************)
\* the ring index of the t-th oldest element, t = 0 for the oldest
Aged(t) == (hIdx + t) % RingLen(history)

\* the t-th adjacent pair of the ring differs; pair 1 is the oldest
PairDiffers(t) == history[Aged(t)] # history[Aged(t - 1)]

\* the last update recorded a change and the ring holds no other
OnlyNewestDiffers ==
    /\ PairDiffers(RingLen(history) - 1)
    /\ \A t \in 1 .. RingLen(history) - 2 : ~PairDiffers(t)

\* a ring of the same length whose only change is between its two oldest
OldestDiffers == [i \in DOMAIN history |-> IF i = hIdx THEN NoAlert ELSE CritAlert]

\* C22: the weight the score applies to the newest adjacent pair of the ring
\* is maxWeight, and weightDiff times the weight it applies to the oldest.
C22_NewestWeighsMax ==
    (phase = "running" /\ count > 0 /\ OnlyNewestDiffers) =>
        /\ score = RDiv(maxWeight, RInt(RingLen(history) - 1))
        /\ RDiv(score, Score(OldestDiffers, hIdx)) = weightDiff

\* every adjacent pair of the ring differs
AllPairsDiffer == \A t \in 1 .. RingLen(history) - 1 : PairDiffers(t)

C23_ScoreBelowOne ==
    (phase = "running" /\ n.UseFlapping) =>
        /\ RLeq(Zero, score)
        /\ RLess(score, One)
        /\ n.FlapHigh = One => ~flapping

C23_LowZeroKeepsFlapping ==
    (phase = "running" /\ n.UseFlapping /\ n.FlapLow = Zero /\ flapping) => flapping'

\* C23: for every history length and every sequence of updateFlapping calls
\* the score p satisfies 0 <= p < 1; so a node with flap_high = 1 never
\* becomes flapping, and a flapping node with flap_low = 0 never stops
\* flapping.
C23_ScoreInUnitInterval ==
    /\ []C23_ScoreBelowOne
    /\ [][C23_LowZeroKeepsFlapping]_vars

\* the largest score of a ring of three or more levels, under flap_high = 1
C23_Witness ==
    /\ phase = "running"
    /\ n.FlapHigh = One
    /\ RingLen(history) >= 3
    /\ count >= RingLen(history)
    /\ AllPairsDiffer
    /\ RLess(FirstWeight, score)
    /\ ~flapping

\* C24: for every assignment of terminal errors to the nodes, the error
\* returned by stop() is the error of the same node as the one returned by
\* Err(), the failed node latest in walk order, and both are nil exactly when
\* no node has an error.
C24_StopErrIsErr ==
    tphase = "stopped" =>
        /\ stopErr = ErrWalk(errs, RWalkOrder(Len(nodes)), 1, {}).err
        /\ tret.op = "Err" => tret.err = stopErr
        /\ stopErr = 0 <=> Failed = {}
        /\ Failed # {} => stopErr = errs[MaxOf(Failed)]

\* Err() after stop() on a task where two nodes failed
C24_Witness ==
    /\ tphase = "stopped"
    /\ tret.op = "Err"
    /\ Cardinality(Failed) >= 2
    /\ tret.err = stopErr
    /\ stopErr # errs[1]

\* C25: for a task with snapshot_interval > 0, stop() after any sequence of
\* start() and stop() calls never closes the snapshotter stop channel while
\* it is nil or already closed: no such sequence of calls panics.
C25_StopNeverPanics == task.SnapshotInterval > 0 => tphase # "panic"

====
